---- MODULE Spec2Model ----
(***************************************************************************)
(* Research Paper Analyzer (app.py): a Streamlit script.  The script is    *)
(* executed top to bottom once per user interaction; session_state and the *)
(* widgets' values persist between two executions.  One action of this     *)
(* model is one interaction together with the whole script run it causes.  *)
(***************************************************************************)
EXTENDS Integers, Sequences, FiniteSets, TLC

\* Number of distinct file names the user can upload.
MaxPapers == 2

\* File names (paper identifiers); distinct numbers stand for distinct names.
PaperIds == 1..MaxPapers

VARIABLES
  keyIdentity,     \* the installed Streamlit identifies a keyed checkbox by its key alone
  uploaded_files,  \* the file uploader's value: sequence of names, upload order
  selection_mode,  \* value of the radio "Selection mode"
  selections,      \* st.session_state.selections: insertion-ordered dict, <<[k, v], ...>>
  chkState,        \* per paper: the widget state of checkbox chk_<paper>
  ss_question,     \* st.session_state.question ("" while the key is unset)
  question,        \* value of the text input as returned in the last run
  last_query,      \* st.session_state.last_query: <<>> while unset, else <<record>>
  out,             \* what the last run displayed
  track,           \* which history the specification records
  lastAct,         \* history: the interaction that caused the last run
  pre,             \* history: selections and mode before the last run
  becameTrue,      \* history: the ids flagged true, in the order they became true
  lastToggle,      \* history: per paper, the value set by its most recent toggle
  onlyToggles      \* history: no Select All, Clear or single-select has happened

vars == <<keyIdentity, uploaded_files, selection_mode, selections, chkState,
          ss_question, question, last_query, out, track, lastAct, pre,
          becameTrue, lastToggle, onlyToggles>>

-----------------------------------------------------------------------------
(* Strings are sequences of characters.                                    *)

UpperChars ==
  << "A","B","C","D","E","F","G","H","I","J","K","L","M",
     "N","O","P","Q","R","S","T","U","V","W","X","Y","Z" >>

LowerChars ==
  << "a","b","c","d","e","f","g","h","i","j","k","l","m",
     "n","o","p","q","r","s","t","u","v","w","x","y","z" >>

Whitespace == {" "}

LowerChar(c) ==
  IF \E i \in DOMAIN UpperChars : UpperChars[i] = c
  THEN LowerChars[CHOOSE i \in DOMAIN UpperChars : UpperChars[i] = c]
  ELSE c

\* variant of lower: the case is kept
lower_keeps_case(s) == s

\* str.lower()
lower(s) == [i \in DOMAIN s |-> LowerChar(s[i])]

RECURSIVE lstrip(_)
lstrip(s) == IF s # <<>> /\ Head(s) \in Whitespace THEN lstrip(Tail(s)) ELSE s

RECURSIVE rstrip(_)
rstrip(s) ==
  IF s # <<>> /\ s[Len(s)] \in Whitespace THEN rstrip(SubSeq(s, 1, Len(s) - 1)) ELSE s

\* str.strip()
strip(s) == rstrip(lstrip(s))

\* sub in s
Contains(sub, s) ==
  \E i \in 0..(Len(s) - Len(sub)) : SubSeq(s, i + 1, i + Len(sub)) = sub

Compare_lc == << "c","o","m","p","a","r","e" >>

-----------------------------------------------------------------------------
(* The chips of the question area.                                         *)

\* Summarize: "Summarize the selected paper(s) into Problem / Method / Results / Limitations"
ChipSummarize ==
  << "S","u","m","m","a","r","i","z","e"," ","t","h","e"," ","s","e",
     "l","e","c","t","e","d"," ","p","a","p","e","r","(","s",")"," ",
     "i","n","t","o"," ","P","r","o","b","l","e","m"," ","/"," ","M",
     "e","t","h","o","d"," ","/"," ","R","e","s","u","l","t","s"," ",
     "/"," ","L","i","m","i","t","a","t","i","o","n","s" >>

\* Compare: "Compare methods and results across selected papers"
ChipCompare ==
  << "C","o","m","p","a","r","e"," ","m","e","t","h","o","d","s"," ",
     "a","n","d"," ","r","e","s","u","l","t","s"," ","a","c","r","o",
     "s","s"," ","s","e","l","e","c","t","e","d"," ","p","a","p","e",
     "r","s" >>

\* Datasets: "What datasets were used in the selected paper(s)?"
ChipDatasets ==
  << "W","h","a","t"," ","d","a","t","a","s","e","t","s"," ","w","e",
     "r","e"," ","u","s","e","d"," ","i","n"," ","t","h","e"," ","s",
     "e","l","e","c","t","e","d"," ","p","a","p","e","r","(","s",")",
     "?" >>

\* Methods: "List and compare the methods used in selected paper(s)."
ChipMethods ==
  << "L","i","s","t"," ","a","n","d"," ","c","o","m","p","a","r","e",
     " ","t","h","e"," ","m","e","t","h","o","d","s"," ","u","s","e",
     "d"," ","i","n"," ","s","e","l","e","c","t","e","d"," ","p","a",
     "p","e","r","(","s",")","." >>

\* Limitations: "What are the limitations of the selected paper(s)?"
ChipLimitations ==
  << "W","h","a","t"," ","a","r","e"," ","t","h","e"," ","l","i","m",
     "i","t","a","t","i","o","n","s"," ","o","f"," ","t","h","e"," ",
     "s","e","l","e","c","t","e","d"," ","p","a","p","e","r","(","s",
     ")","?" >>

chips ==
  << [label |-> "Summarize",   q |-> ChipSummarize],
     [label |-> "Compare",     q |-> ChipCompare],
     [label |-> "Datasets",    q |-> ChipDatasets],
     [label |-> "Methods",     q |-> ChipMethods],
     [label |-> "Limitations", q |-> ChipLimitations] >>

\* Texts the user types into the question field: " " and "Compare".
TypedTexts ==
  { << " " >>,
    << "C","o","m","p","a","r","e" >> }

\* Chips the user clicks: Summarize and Methods.
ClickedChips == { i \in DOMAIN chips : chips[i].label \in {"Summarize", "Methods"} }

-----------------------------------------------------------------------------
(* Python dict with insertion order: a sequence of [k, v] without repeated  *)
(* keys.                                                                    *)

Range(s) == { s[i] : i \in DOMAIN s }

HasKey(d, k) == \E i \in DOMAIN d : d[i].k = k

\* d.get(k, dflt)
DictGet(d, k, dflt) ==
  IF HasKey(d, k) THEN d[CHOOSE i \in DOMAIN d : d[i].k = k].v ELSE dflt

\* variant of DictSet: an existing key is moved to the end
DictSet_moves_to_end(d, k, v) ==
  Append(SelectSeq(d, LAMBDA e : e.k # k), [k |-> k, v |-> v])

\* d[k] = v : an existing key keeps its position, a new key goes last
DictSet(d, k, v) ==
  IF HasKey(d, k)
  THEN [i \in DOMAIN d |-> IF d[i].k = k THEN [k |-> k, v |-> v] ELSE d[i]]
  ELSE Append(d, [k |-> k, v |-> v])

\* [p for p, v in d.items() if v]
TrueKeys(d) ==
  LET t == SelectSeq(d, LAMBDA e : e.v) IN [i \in DOMAIN t |-> t[i].k]

-----------------------------------------------------------------------------
(* Mock generators.                                                        *)

\* variant of mock_structured_summary: the title is not the paper's name
mock_structured_summary_untitled(paper_name) ==
  [ title       |-> 0,
    problem     |-> "Limited generalization to out-of-distribution datasets.",
    method      |-> "Hybrid RAG with a transformer-based retriever and lightweight reader.",
    results     |-> "Up to 15% improvement on in-domain benchmarks; mixed OOD performance.",
    limitations |-> "Small evaluation set; no ablation on hyperparameters." ]

mock_structured_summary(paper_name) ==
  [ title       |-> paper_name,
    problem     |-> "Limited generalization to out-of-distribution datasets.",
    method      |-> "Hybrid RAG with a transformer-based retriever and lightweight reader.",
    results     |-> "Up to 15% improvement on in-domain benchmarks; mixed OOD performance.",
    limitations |-> "Small evaluation set; no ablation on hyperparameters." ]

RECURSIVE comparison_from(_, _, _)
comparison_from(papers, i, d) ==
  IF i > Len(papers) THEN d
  ELSE comparison_from(papers, i + 1,
                       DictSet(d, papers[i], mock_structured_summary(papers[i])))

\* variant of mock_comparison: the papers are taken last to first
mock_comparison_reversed(papers) ==
  comparison_from([i \in DOMAIN papers |-> papers[Len(papers) + 1 - i]], 1, << >>)

\* {p: mock_structured_summary(p) for p in papers}
mock_comparison(papers) == comparison_from(papers, 1, << >>)

-----------------------------------------------------------------------------
(* Widgets.  A widget keeps its value between runs under its identity; a   *)
(* widget that a run does not render loses its state at the end of the run. *)

\* idv: the value parameter the identity was computed from (FALSE when the
\* identity is the key alone)
NoWidget == [present |-> FALSE, idv |-> FALSE, val |-> FALSE]

IdValue(value) == IF keyIdentity THEN FALSE ELSE value

\* st.checkbox("Select", value=value, key="chk_<paper>"), w the state kept
\* from the previous run.  The identity of the widget is its key alone
\* (keyIdentity) or its key together with its parameters, value among them;
\* a widget with a new identity starts at value.
checkbox(w, value) ==
  IF w.present /\ w.idv = IdValue(value) THEN w.val ELSE value

\* st.text_input("Question (required)", value=value) has no key: its
\* identity is its parameters.  prev is the value parameter of the previous
\* run and w the widget's value.
text_input(value, prev, w) == IF value = prev THEN w ELSE value

-----------------------------------------------------------------------------
(* The script, section by section.  ev names the button pressed, if any.   *)

\* Select All: for p in paper_items: selections[p] = True
RECURSIVE select_all(_, _, _)
select_all(paper_items, i, sel) ==
  IF i > Len(paper_items) THEN sel
  ELSE select_all(paper_items, i + 1, DictSet(sel, paper_items[i], TRUE))

\* Clear Selection: selections = {}
clear_selection(sel) == << >>

\* selection controls
controls(paper_items, sel, ev) ==
  IF ev.type = "selectAll" THEN select_all(paper_items, 1, sel)
  ELSE IF ev.type = "clear" THEN clear_selection(sel)
  ELSE sel

\* variant of single_button: the paper is added to the dict
single_button_adds(sel, paper) == DictSet(sel, paper, TRUE)

\* the clicked card's button: selections = {paper: True}
single_button(sel, paper) == << [k |-> paper, v |-> TRUE] >>

\* variant of cards_single: the Single branch keeps the first selected id only
cards_single_collapses(paper_items, i, sel, clicked) ==
  LET t == SelectSeq(sel, LAMBDA e : e.v) IN IF t = << >> THEN sel ELSE << t[1] >>

\* card loop, Single mode
RECURSIVE cards_single(_, _, _, _)
cards_single(paper_items, i, sel, clicked) ==
  IF i > Len(paper_items) THEN sel
  ELSE cards_single(paper_items, i + 1,
                    IF paper_items[i] = clicked THEN single_button(sel, paper_items[i])
                    ELSE sel,
                    clicked)

\* card loop, Multi mode: every card's checkbox is written back
RECURSIVE cards_multi(_, _, _, _)
cards_multi(paper_items, i, sel, chkIn) ==
  IF i > Len(paper_items) THEN sel
  ELSE LET paper    == paper_items[i]
           selected == DictGet(sel, paper, FALSE)
           chk      == checkbox(chkIn[paper], selected)
       IN  cards_multi(paper_items, i + 1, DictSet(sel, paper, chk), chkIn)

\* the checkbox states a run leaves behind; sel is the dict the card loop
\* starts from (the names in paper_items are distinct, so the loop reads
\* every card's flag from it)
cards_widgets(paper_items, mode, sel, chkIn) ==
  [ p \in PaperIds |->
      IF mode = "Multi" /\ p \in Range(paper_items)
      THEN LET selected == DictGet(sel, p, FALSE)
           IN  [present |-> TRUE, idv |-> IdValue(selected),
                val |-> checkbox(chkIn[p], selected)]
      ELSE NoWidget ]

\* selection controls and paper cards: the dict and the checkboxes after them
card_area(files, mode, chkIn, ev) ==
  LET paper_items == files
      sel1 == controls(paper_items, selections, ev)
  IN  [ sel |-> IF mode = "Single"
                THEN cards_single(paper_items, 1, sel1,
                                  IF ev.type = "selectSingle" THEN ev.id ELSE 0)
                ELSE cards_multi(paper_items, 1, sel1, chkIn),
        chk |-> cards_widgets(paper_items, mode, sel1, chkIn) ]

\* chips and text input: session_state.question and the question
question_area(typed, ev) ==
  LET ssq == IF ev.type = "chip" THEN chips[ev.id].q ELSE ss_question
  IN  [ss_question |-> ssq, question |-> text_input(ssq, ss_question, typed)]

selection_warning(sel_list) ==
  IF sel_list = << >> THEN {"warning: Select at least one paper"} ELSE {}

\* variant of question_warning: checked only when the selection is not empty
question_warning_unless_no_selection(q, sel_list) ==
  IF sel_list = << >> THEN {}
  ELSE IF strip(q) = << >> THEN {"error: Question cannot be empty"} ELSE {}

\* the check of the question before the Ask button
question_warning(q, sel_list) ==
  IF strip(q) = << >> THEN {"error: Question cannot be empty"} ELSE {}

\* variant of validation: the question is not checked
validation_skips_question(q, sel_list) ==
  IF sel_list = << >> THEN {"error: Please select one or more papers"} ELSE {}

\* validation of a submit: the error it shows, none when it goes through
validation(q, sel_list) ==
  IF sel_list = << >> THEN {"error: Please select one or more papers"}
  ELSE IF strip(q) = << >> THEN {"error: Question is empty"}
  ELSE {}

\* variant of comparison_intent: the number of selected ids is not looked at
comparison_intent_by_text(q, sel_list) ==
  \/ Contains(Compare_lc, lower(q))
  \/ Contains(Compare_lc, q)

\* intent detection
comparison_intent(q, sel_list) ==
  \/ Len(sel_list) > 1
  \/ Contains(Compare_lc, lower(q))
  \/ Contains(Compare_lc, q)

NoOutput == [msgs |-> {}, intent |-> "none", comparison |-> << >>, summary |-> << >>]

\* variant of query_record: the lower-cased question is recorded
query_record_lowered(q, sel_list, intent) ==
  [question |-> lower(q), selected |-> sel_list, comparison |-> intent]

\* the record saved to st.session_state.last_query
query_record(q, sel_list, intent) ==
  [question |-> q, selected |-> sel_list, comparison |-> intent]

\* warnings, Ask button and output: what is displayed and last_query
ask_area(q, sel_list, ev) ==
  LET warn == selection_warning(sel_list) \cup question_warning(q, sel_list)
  IN  IF ev.type # "submit"
      THEN [out |-> [NoOutput EXCEPT !.msgs = warn], last_query |-> last_query]
      ELSE IF validation(q, sel_list) # {}
      THEN [out        |-> [NoOutput EXCEPT !.msgs = warn \cup validation(q, sel_list)],
            last_query |-> last_query]
      ELSE [out |->
              IF comparison_intent(q, sel_list)
              THEN [msgs       |-> warn \cup {"success: Comparison"},
                    intent     |-> "comparison",
                    comparison |-> mock_comparison(sel_list),
                    summary    |-> << >>]
              ELSE [msgs       |-> warn \cup {"success: Single-paper summary"},
                    intent     |-> "single",
                    comparison |-> << >>,
                    summary    |-> << mock_structured_summary(sel_list[1]) >>],
            last_query |->
              << query_record(q, sel_list, comparison_intent(q, sel_list)) >>]

\* selected_list as the script computes it from the dict
selected_list == TrueKeys(selections)

-----------------------------------------------------------------------------
(* History variables.                                                      *)

Flagged(sel) == { sel[i].k : i \in { j \in DOMAIN sel : sel[j].v } }

Keys(sel) == { sel[i].k : i \in DOMAIN sel }

KeyPos(sel, k) == CHOOSE i \in DOMAIN sel : sel[i].k = k

\* ids that are still true keep their place; ids that became true in this run
\* follow, in the order the run wrote them (the order of paper_items)
NextBecameTrue(files, sel2) ==
  SelectSeq(becameTrue, LAMBDA p : p \in Flagged(sel2))
  \o SelectSeq(files, LAMBDA p : p \in Flagged(sel2) /\ p \notin Range(becameTrue))

NoToggles == [p \in PaperIds |-> "none"]

Event(t, i, v) == [type |-> t, id |-> i, val |-> v]

History(files, sel2, ev) ==
  LET only == onlyToggles /\ ev.type \notin {"selectAll", "clear", "selectSingle"}
  IN  /\ lastAct' = ev
      /\ pre' = [selections |-> selections, mode |-> selection_mode]
      /\ becameTrue' = IF track = "order" THEN NextBecameTrue(files, sel2)
                       ELSE becameTrue
      /\ onlyToggles' = IF track = "toggles" THEN only ELSE onlyToggles
      /\ lastToggle' = IF track # "toggles" \/ ~only THEN NoToggles
                       ELSE IF ev.type = "toggle"
                       THEN [lastToggle EXCEPT ![ev.id] = IF ev.val THEN "on" ELSE "off"]
                       ELSE lastToggle
      /\ UNCHANGED track

-----------------------------------------------------------------------------
(* Actions: an interaction and the run of the script it causes.  files,    *)
(* mode, chkIn and typed are the widget values the browser sends.          *)

Rerun(files, mode, chkIn, typed, ev) ==
  \E cards \in {card_area(files, mode, chkIn, ev)} :
  \E qa \in {question_area(typed, ev)} :
  \E ask \in {ask_area(qa.question, TrueKeys(cards.sel), ev)} :
      /\ uploaded_files' = files
      /\ selection_mode' = mode
      /\ selections' = cards.sel
      /\ chkState' = cards.chk
      /\ ss_question' = qa.ss_question
      /\ question' = qa.question
      /\ last_query' = ask.last_query
      /\ out' = ask.out
      /\ History(files, cards.sel, ev)
      /\ UNCHANGED keyIdentity

\* the file uploader gets one more file
Upload(p) ==
  /\ p \notin Range(uploaded_files)
  /\ Rerun(Append(uploaded_files, p), selection_mode, chkState, question,
           Event("upload", p, FALSE))

\* a file is removed from the file uploader
Remove(p) ==
  /\ p \in Range(uploaded_files)
  /\ Rerun(SelectSeq(uploaded_files, LAMBDA x : x # p), selection_mode, chkState,
           question, Event("remove", p, FALSE))

\* the radio is set to the other mode
SetMode(m) ==
  /\ m # selection_mode
  /\ Rerun(uploaded_files, m, chkState, question, Event("setMode", 0, FALSE))

SelectAll ==
  Rerun(uploaded_files, selection_mode, chkState, question, Event("selectAll", 0, FALSE))

Clear ==
  Rerun(uploaded_files, selection_mode, chkState, question, Event("clear", 0, FALSE))

\* the button of a card, rendered in Single mode only
SelectSingle(p) ==
  /\ selection_mode = "Single"
  /\ p \in Range(uploaded_files)
  /\ Rerun(uploaded_files, selection_mode, chkState, question,
           Event("selectSingle", p, FALSE))

\* the checkbox of a card, rendered in Multi mode only, is clicked
Toggle(p) ==
  /\ selection_mode = "Multi"
  /\ chkState[p].present
  /\ Rerun(uploaded_files, selection_mode,
           [chkState EXCEPT ![p].val = ~chkState[p].val], question,
           Event("toggle", p, ~chkState[p].val))

Chip(i) ==
  Rerun(uploaded_files, selection_mode, chkState, question, Event("chip", i, FALSE))

\* the user edits the question field
Type(t) ==
  /\ t # question
  /\ Rerun(uploaded_files, selection_mode, chkState, t, Event("type", 0, FALSE))

Submit ==
  Rerun(uploaded_files, selection_mode, chkState, question, Event("submit", 0, FALSE))

\* the first run of a session: no file, nothing in session_state
InitTracking(t) ==
  /\ keyIdentity \in BOOLEAN
  /\ uploaded_files = << >>
  /\ selection_mode = "Multi"
  /\ selections = << >>
  /\ chkState = [p \in PaperIds |-> NoWidget]
  /\ ss_question = << >>
  /\ question = << >>
  /\ last_query = << >>
  /\ out = [NoOutput EXCEPT !.msgs = {"warning: Select at least one paper",
                                      "error: Question cannot be empty"}]
  /\ track = t
  /\ lastAct = Event("init", 0, FALSE)
  /\ pre = [selections |-> << >>, mode |-> "Multi"]
  /\ becameTrue = << >>
  /\ lastToggle = NoToggles
  /\ onlyToggles = TRUE

\* The selection store: every interaction that writes the selection, and a
\* chip click standing for the interactions that only rerun the script.
SelectionStep ==
  \/ \E p \in PaperIds : Upload(p)
  \/ \E p \in PaperIds : Remove(p)
  \/ \E m \in {"Multi", "Single"} : SetMode(m)
  \/ SelectAll
  \/ Clear
  \/ \E p \in PaperIds : SelectSingle(p)
  \/ \E p \in PaperIds : Toggle(p)
  \/ Chip(1)

Init == InitTracking("select")

Next == SelectionStep

Spec == Init /\ [][Next]_vars

InitOrder == InitTracking("order")

NextOrder == SelectionStep

SpecOrder == InitOrder /\ [][NextOrder]_vars

InitToggles == InitTracking("toggles")

NextToggles == SelectionStep

SpecToggles == InitToggles /\ [][NextToggles]_vars

\* Asking: papers are uploaded and ticked, the question is typed or filled by
\* a chip, and submitted.
InitAsk == InitTracking("select")

NextAsk ==
  \/ \E p \in PaperIds : Upload(p)
  \/ \E p \in PaperIds : Toggle(p)
  \/ \E i \in ClickedChips : Chip(i)
  \/ \E t \in TypedTexts : Type(t)
  \/ Submit

SpecAsk == InitAsk /\ [][NextAsk]_vars

\* The last-query record: every kind of interaction, the question either
\* blank or filled by the first chip.
InitQuery == InitTracking("select")

NextQuery ==
  \/ \E p \in PaperIds : Upload(p)
  \/ \E m \in {"Multi", "Single"} : SetMode(m)
  \/ SelectAll
  \/ Clear
  \/ \E p \in PaperIds : SelectSingle(p)
  \/ \E p \in PaperIds : Toggle(p)
  \/ Chip(1)
  \/ Type(<< " " >>)
  \/ Submit

SpecQuery == InitQuery /\ [][NextQuery]_vars

\* Papers are uploaded, ticked and removed again before the question is
\* submitted.
InitRemove == InitTracking("select")

NextRemove ==
  \/ \E p \in PaperIds : Upload(p)
  \/ \E p \in PaperIds : Remove(p)
  \/ \E p \in PaperIds : Toggle(p)
  \/ Chip(1)
  \/ Submit

SpecRemove == InitRemove /\ [][NextRemove]_vars

-----------------------------------------------------------------------------
(* Properties.                                                             *)

Flag(sel, p) == p \in Flagged(sel)

Pos(s, x) == CHOOSE i \in DOMAIN s : s[i] = x

UpperOf(c) == UpperChars[CHOOSE i \in DOMAIN LowerChars : LowerChars[i] = c]

\* "compare" occurs in q, every letter in either case
MentionsCompare(q) ==
  \E i \in 0..(Len(q) - Len(Compare_lc)) :
    \A j \in DOMAIN Compare_lc :
      q[i + j] \in {Compare_lc[j], UpperOf(Compare_lc[j])}

\* C1, as stated: whenever the mode is Single, at most one id is flagged true.
C1_SingleAtMostOne ==
  selection_mode = "Single" => Cardinality(Flagged(selections)) <= 1

\* C1, amended: in Single mode at most one id is flagged true after a
\* single-select or a clear, and while the mode stays Single no interaction
\* other than Select All takes the selection from at most one flagged id to
\* more than one.
C1_SingleKeepsAtMostOne ==
  selection_mode = "Single" =>
    /\ lastAct.type \in {"selectSingle", "clear"}
         => Cardinality(Flagged(selections)) <= 1
    /\ ( /\ pre.mode = "Single"
         /\ lastAct.type # "selectAll"
         /\ Cardinality(Flagged(pre.selections)) <= 1 )
         => Cardinality(Flagged(selections)) <= 1

\* a single-select collapses a selection of several ids carried into Single mode
C1_Witness ==
  /\ selection_mode = "Single"
  /\ lastAct.type = "selectSingle"
  /\ Cardinality(Flagged(pre.selections)) >= 2
  /\ Flagged(selections) = {lastAct.id}

\* C2, as stated: selected_list holds the ids flagged true in the order in
\* which they became true.
C2_BecameTrueOrder == selected_list = becameTrue

\* C2, amended: selected_list holds exactly the ids flagged true, each once,
\* in the order of their keys in the selection dict; and the relative order of
\* two keys of the dict is not changed by any interaction other than a clear
\* or a single-select, which replace the dict.
C2_KeyOrder ==
  /\ Range(selected_list) = Flagged(selections)
  /\ Len(selected_list) = Cardinality(Flagged(selections))
  /\ \A a, b \in Range(selected_list) :
       Pos(selected_list, a) < Pos(selected_list, b)
         => KeyPos(selections, a) < KeyPos(selections, b)
  /\ lastAct.type \notin {"clear", "selectSingle"} =>
       \A a, b \in Keys(pre.selections) :
         /\ a \in Keys(selections)
         /\ b \in Keys(selections)
         /\ (KeyPos(pre.selections, a) < KeyPos(pre.selections, b)
               => KeyPos(selections, a) < KeyPos(selections, b))

\* two ids are selected and the one listed first became true last
C2_Witness ==
  /\ lastAct.type = "toggle"
  /\ Len(selected_list) >= 2
  /\ Len(becameTrue) >= 2
  /\ selected_list[1] = becameTrue[Len(becameTrue)]

\* C3: a submit that goes through computes comparison intent true exactly when
\* more than one id is selected or the question contains "compare" in any
\* letter case, and records that flag.
C3_Intent ==
  (lastAct.type = "submit" /\ out.intent # "none") =>
    /\ (out.intent = "comparison")
         <=> (Len(selected_list) > 1 \/ MentionsCompare(question))
    /\ last_query # << >>
    /\ last_query[1].comparison = (out.intent = "comparison")

\* one paper selected and the question "Compare": comparison
C3_Witness ==
  /\ lastAct.type = "submit"
  /\ out.intent = "comparison"
  /\ Len(selected_list) = 1
  /\ question = << "C","o","m","p","a","r","e" >>

\* C4: a submit with no id selected, or with a question that is blank after
\* stripping, produces no comparison and no summary and leaves last_query as
\* it was.
C4_BlockedSubmit ==
  [][ ( /\ lastAct'.type = "submit"
        /\ (selected_list' = << >> \/ strip(question') = << >>) )
      => /\ out'.intent = "none"
         /\ out'.comparison = << >>
         /\ out'.summary = << >>
         /\ last_query' = last_query ]_vars

\* a blocked submit after one that went through: the earlier record is kept
C4_Witness ==
  /\ lastAct.type = "submit"
  /\ out.intent = "none"
  /\ last_query # << >>
  /\ selected_list # << >>
  /\ strip(question) = << >>

NoSelectionMessages ==
  {"warning: Select at least one paper", "error: Please select one or more papers"}

EmptyQuestionMessages ==
  {"error: Question cannot be empty", "error: Question is empty"}

C6_Toggle ==
  /\ lastAct.type = "toggle" =>
       /\ Flag(selections, lastAct.id) = lastAct.val
       /\ \A p \in PaperIds \ {lastAct.id} :
            Flag(selections, p) = Flag(pre.selections, p)
  /\ onlyToggles => Flagged(selections) = { p \in PaperIds : lastToggle[p] = "on" }

\* an id is toggled off while another one, toggled on earlier, stays on
C6_Witness ==
  /\ lastAct.type = "toggle"
  /\ ~lastAct.val
  /\ onlyToggles
  /\ \E p \in PaperIds \ {lastAct.id} : lastToggle[p] = "on" /\ Flag(selections, p)

\* C7: after a clear no id is flagged true.
C7_ClearEmpties == lastAct.type = "clear" => selected_list = << >>

\* C8: after a select-all every uploaded paper is flagged true and the flag
\* of every id that is not uploaded is as it was.
C8_SelectAll ==
  lastAct.type = "selectAll" =>
    /\ \A p \in Range(uploaded_files) : Flag(selections, p)
    /\ \A p \in PaperIds \ Range(uploaded_files) :
         Flag(selections, p) = Flag(pre.selections, p)

\* C9: a single-select leaves the dict {id: True}, so selected_list is [id].
C9_SelectSingle ==
  lastAct.type = "selectSingle" =>
    /\ selections = << [k |-> lastAct.id, v |-> TRUE] >>
    /\ selected_list = << lastAct.id >>

\* selectSingle(b) where [a] was selected in Single mode
C9_Witness ==
  /\ lastAct.type = "selectSingle"
  /\ pre.mode = "Single"
  /\ Len(TrueKeys(pre.selections)) = 1
  /\ TrueKeys(pre.selections)[1] # lastAct.id
  /\ selected_list = << lastAct.id >>

\* C10: a switch from Multi to Single leaves the dict as it was, and while
\* the mode stays Single every id flagged true stays flagged true until a
\* single-select or a clear.
C10_ModeSwitchKeeps ==
  /\ (lastAct.type = "setMode" /\ selection_mode = "Single")
       => selections = pre.selections
  /\ ( /\ selection_mode = "Single"
       /\ pre.mode = "Single"
       /\ lastAct.type \notin {"selectSingle", "clear"} )
       => Flagged(pre.selections) \subseteq Flagged(selections)

\* two ids selected in Multi mode are still selected after the switch
C10_Witness ==
  /\ lastAct.type = "setMode"
  /\ selection_mode = "Single"
  /\ Cardinality(Flagged(selections)) >= 2

\* C11: a submit that goes through with comparison intent shows a comparison
\* with one entry per selected id, in the order of selected_list, each keyed
\* by its id and holding a summary whose title is that id.
C11_ComparisonEntries ==
  (lastAct.type = "submit" /\ out.intent = "comparison") =>
    /\ Len(out.comparison) = Len(selected_list)
    /\ \A i \in DOMAIN selected_list :
         /\ out.comparison[i].k = selected_list[i]
         /\ out.comparison[i].v.title = selected_list[i]
    /\ out.summary = << >>

\* two papers compared, listed in the order of selected_list (paper 2 first)
C11_Witness ==
  /\ lastAct.type = "submit"
  /\ out.intent = "comparison"
  /\ Len(out.comparison) = 2
  /\ out.comparison[1].k > out.comparison[2].k

\* C12: a submit that goes through without comparison intent shows exactly
\* one summary and no comparison, and the summary is that of the first id of
\* selected_list.
C12_SingleSummary ==
  (lastAct.type = "submit" /\ out.intent = "single") =>
    /\ Len(out.summary) = 1
    /\ out.summary[1].title = selected_list[1]
    /\ out.comparison = << >>

\* a single summary for the second of two uploaded papers
C12_Witness ==
  /\ lastAct.type = "submit"
  /\ out.intent = "single"
  /\ Len(uploaded_files) = 2
  /\ out.summary[1].title = uploaded_files[2]

\* C13: a submit that goes through leaves last_query holding the question
\* submitted, selected_list and the comparison flag of that submit, whatever
\* it held before; every other run leaves last_query as it was.
C13_LastQuery ==
  [][ IF lastAct'.type = "submit" /\ out'.intent # "none"
      THEN last_query' = << [question   |-> question',
                             selected   |-> selected_list',
                             comparison |-> (out'.intent = "comparison")] >>
      ELSE last_query' = last_query ]_vars

\* the record of an earlier submit is kept while the selection is changed
C13_Witness ==
  /\ lastAct.type \in {"toggle", "selectSingle", "selectAll", "clear"}
  /\ last_query # << >>
  /\ last_query[1].selected # selected_list
  /\ last_query[1].question # question

\* C14: right after a chip click the question is the chip's canned question.
C14_ChipFills ==
  lastAct.type = "chip" => question = chips[lastAct.id].q

\* C16: a submit that takes the single-paper path has exactly one id
\* selected and a question without "compare" in any letter case, and its
\* summary is that of the one selected id.
C16_SinglePath ==
  (lastAct.type = "submit" /\ out.intent = "single") =>
    /\ Len(selected_list) = 1
    /\ ~MentionsCompare(question)
    /\ Flagged(selections) = { out.summary[1].title }

\* one of two uploaded papers is selected and summarized
C16_Witness ==
  /\ lastAct.type = "submit"
  /\ out.intent = "single"
  /\ Len(uploaded_files) = 2
  /\ Len(selected_list) = 1
  /\ question = ChipSummarize

\* C17: at a submit that goes through, every id of selected_list, of the
\* output and of the last-query record is the name of an uploaded paper.
C17_SelectedAreUploaded ==
  (lastAct.type = "submit" /\ out.intent # "none") =>
    /\ Range(selected_list) \subseteq Range(uploaded_files)
    /\ Range(last_query[1].selected) \subseteq Range(uploaded_files)
    /\ \A i \in DOMAIN out.comparison : out.comparison[i].k \in Range(uploaded_files)
    /\ \A i \in DOMAIN out.summary : out.summary[i].title \in Range(uploaded_files)

====
